---- MODULE Spec2Model ----
(***************************************************************************)
(* Model of the two-board Tetris match controller                          *)
(* (games/tetris/src/model.rs) and of the renderer's symbol codec          *)
(* (rust-pixel/src/render/cell.rs).                                        *)
(*                                                                         *)
(* The match controller is translated from model.rs.  The board            *)
(* (tetris_lib::cell::TetrisCell), the AI (tetris_lib::ai::TetrisAi), the  *)
(* generator (rust_pixel::util::Rand) and the timer/event system are not   *)
(* part of the two files; they are modelled from the design document and   *)
(* are marked so where they are defined.                                   *)
(***************************************************************************)
EXTENDS Integers, Sequences, FiniteSets, TLC

(***************************************************************************)
(* Bounds of the exploration.                                              *)
(***************************************************************************)
\* grid width and height (scaled down from the real board)
W == 4
H == 3
\* length of the shared block queue (scaled down)
BLKQUEUE == 3
\* srand_now() seeds the generator with a time-derived value in 0..MaxSeed
MaxSeed == 1
\* longest input queue handed to one handle_input call
MaxInput == 2
\* number of handler calls explored from construction
MaxSteps == 4

VARIABLES
    cells,         \* TetrisModel.cells: the two boards
    block_queue,   \* TetrisModel.block_queue
    trand,         \* TetrisModel.trand: state of the generator
    work2idx,      \* TetrisModel.tai.work2idx
    timeout_auto,  \* TetrisModel.timeout_auto, in 1/100 s
    timeout_ai,    \* TetrisModel.timeout_ai, in 1/100 s
    timers,        \* names of the fired timers not yet delivered (timer system)
    input_events,  \* context.input_events: the queued input events
    trace,         \* the calls made by the last handler call, in order
    call,          \* the last handler call and its arguments
    phase,         \* "new" after TetrisModel::new(), "run" after Model::init
    steps,         \* handler calls so far, a handle_input call counted per event
    c_pc,          \* codec run: "start", "sym", "done", "arg", "ret", or "off"
    c_idx,         \* codec run: the index handed to cellsym
    c_sym,         \* codec run: the string cellsym returned or cellinfo is given
    c_ret          \* codec run: what cellinfo returned for c_sym

gvars == <<cells, block_queue, trand, work2idx, timeout_auto, timeout_ai,
           timers, input_events, trace, call, phase, steps>>
cvars == <<c_pc, c_idx, c_sym, c_ret>>
vars == <<cells, block_queue, trand, work2idx, timeout_auto, timeout_ai,
          timers, input_events, trace, call, phase, steps,
          c_pc, c_idx, c_sym, c_ret>>

(***************************************************************************)
(* Symbol codec (cell.rs).  A String is a sequence of code points; its     *)
(* bytes are the concatenation of the UTF-8 encodings of its chars.        *)
(***************************************************************************)
\* UTF-8 encoding of one code point below U+10000
Utf8(cp) ==
    IF cp < 128 THEN <<cp>>
    ELSE IF cp < 2048 THEN <<192 + (cp \div 64), 128 + (cp % 64)>>
    ELSE <<224 + (cp \div 4096), 128 + ((cp \div 64) % 64), 128 + (cp % 64)>>

RECURSIVE as_bytes(_)
as_bytes(s) == IF s = <<>> THEN <<>> ELSE Utf8(Head(s)) \o as_bytes(Tail(s))

\* the code points of the 256 entries of SSYM, in table order
SSYM == <<
    8704, 8705, 8706, 8707, 8708, 8709, 8710, 8711, 8712, 8713, 8714, 8715, 8716, 8717, 8718, 8719,
    8720, 8721, 8722, 8723, 8724, 8725, 8726, 8727, 8728, 8729, 8730, 8731, 8732, 8733, 8734, 8735,
    8736, 8737, 8738, 8739, 8740, 8741, 8742, 8743, 8744, 8745, 8746, 8747, 8748, 8749, 8750, 8751,
    8752, 8753, 8754, 8755, 8756, 8757, 8758, 8759, 8760, 8761, 8762, 8763, 8764, 8765, 8766, 8767,
    8768, 8769, 8770, 8771, 8772, 8773, 8774, 8775, 8776, 8777, 8778, 8779, 8780, 8781, 8782, 8783,
    8784, 8785, 8786, 8787, 8788, 8789, 8790, 8791, 8792, 8793, 8794, 8795, 8796, 8797, 8798, 8799,
    8800, 8801, 8802, 8803, 8804, 8805, 8806, 8807, 8808, 8809, 8810, 8811, 8812, 8813, 8814, 8815,
    8816, 8817, 8818, 8819, 8820, 8821, 8822, 8823, 8824, 8825, 8826, 8827, 8828, 8829, 8830, 8831,
    8832, 8833, 8834, 8835, 8836, 8837, 8838, 8839, 8840, 8841, 8842, 8843, 8844, 8845, 8846, 8847,
    8848, 8849, 8850, 8851, 8852, 8853, 8854, 8855, 8856, 8857, 8858, 8859, 8860, 8861, 8862, 8863,
    8864, 8865, 8866, 8867, 8868, 8869, 8870, 8871, 8872, 8873, 8874, 8875, 8876, 8877, 8878, 8879,
    8880, 8881, 8882, 8883, 8884, 8885, 8886, 8887, 8888, 8889, 8890, 8891, 8892, 8893, 8894, 8895,
    8896, 8897, 8898, 8899, 8900, 8901, 8902, 8903, 8904, 8905, 8906, 8907, 8908, 8909, 8910, 8911,
    8912, 8913, 8914, 8915, 8916, 8917, 8918, 8919, 8920, 8921, 8922, 8923, 8924, 8925, 8926, 8927,
    8928, 8929, 8930, 8931, 8932, 8933, 8934, 8935, 8936, 8937, 8938, 8939, 8940, 8941, 8942, 8943,
    8944, 8945, 8946, 8947, 8948, 8949, 8950, 8951, 8952, 8953, 8954, 8955, 8956, 8957, 8958, 8959 >>

\* cellsym(idx): SSYM[idx as usize], a one-char string
cellsym(i) == <<SSYM[i + 1]>>

\* the chars of `syms`, in order: the char at position i maps to i
syms == <<
    64, 97, 98, 99, 100, 101, 102, 103, 104, 105, 106, 107, 108, 109, 110, 111,
    112, 113, 114, 115, 116, 117, 118, 119, 120, 121, 122, 91, 163, 93, 8593, 8592,
    32, 33, 34, 35, 36, 37, 38, 39, 40, 41, 42, 43, 44, 45, 46, 47,
    48, 49, 50, 51, 52, 53, 54, 55, 56, 57, 58, 59, 60, 61, 62, 63,
    9472, 65, 66, 67, 68, 69, 70, 71, 72, 73, 74, 75, 76, 77, 78, 79,
    80, 81, 82, 83, 84, 85, 86, 87, 88, 89, 90, 9532 >>

\* the twelve entries CELL_SYM_MAP is built from, as <<code point, value>>
CELL_SYM_PRESET ==
    { <<9607, 209>>, <<9618, 94>>, <<8729, 122>>, <<9474, 93>>, <<9488, 110>>,
      <<9582, 73>>, <<9484, 112>>, <<9581, 85>>, <<9492, 109>>, <<9584, 74>>,
      <<9496, 125>>, <<9583, 75>> }

\* CELL_SYM_MAP.get(symbol): <<TRUE, value>> or <<FALSE, 0>>; the keys are
\* one-char strings, and an insert of syms replaces a preset of the same key
CELL_SYM_MAP_get(s) ==
    IF Len(s) # 1 THEN <<FALSE, 0>>
    ELSE IF \E i \in 1..Len(syms) : syms[i] = s[1]
         THEN <<TRUE, ((CHOOSE i \in 1..Len(syms) : syms[i] = s[1]) - 1) % 256>>
    ELSE IF \E p \in CELL_SYM_PRESET : p[1] = s[1]
         THEN <<TRUE, (CHOOSE p \in CELL_SYM_PRESET : p[1] = s[1])[2]>>
    ELSE <<FALSE, 0>>

\* u8 arithmetic: x & 3 is x % 4, x >> 2 is x \div 4, x & 0x3f is x % 64,
\* x << 6 drops the bits shifted out of the byte
Shl6(x) == (x * 64) % 256

\* the sum ((sbts[1] & 3) << 6) + (sbts[2] & 0x3f) before it is stored in a u8
cellinfo_sum(sbts) == Shl6(sbts[2] % 4) + (sbts[3] % 64)

\* CellinfoShift5 is cellinfo with the shift one bit short
CellinfoShift5(symbol) ==
    LET sbts == as_bytes(symbol) IN
    IF Len(sbts) = 3 /\ sbts[1] = 226 /\ sbts[2] \div 4 = 34
    THEN (((sbts[2] % 4) * 32) + (sbts[3] % 64)) % 256
    ELSE CELL_SYM_MAP_get(symbol)[2]

\* CellinfoMapFirst is cellinfo with the lookup tried before the range
CellinfoMapFirst(symbol) ==
    LET sbts == as_bytes(symbol)
        g == CELL_SYM_MAP_get(symbol)
    IN  IF g[1] THEN g[2]
        ELSE IF Len(sbts) = 3 /\ sbts[1] = 226 /\ sbts[2] \div 4 = 34
             THEN cellinfo_sum(sbts) % 256
             ELSE 0

cellinfo(symbol) ==
    LET sbts == as_bytes(symbol) IN
    IF Len(sbts) = 3 /\ sbts[1] = 226 /\ sbts[2] \div 4 = 34
    THEN cellinfo_sum(sbts) % 256
    ELSE CELL_SYM_MAP_get(symbol)[2]

(***************************************************************************)
(* Generator (rust_pixel::util::Rand), modelled from the design document:  *)
(* a deterministic generator re-initialised from a seed.                   *)
(***************************************************************************)
RandStates == 0..15
srand(seed) == seed % 16
\* srand_now(): re-seeds from the clock, whose reading is now
srand_now(s, now) == srand(now)
\* rand(): the new generator state, which is also the value returned
rand(s) == (s * 5 + 7) % 16

(***************************************************************************)
(* Board (tetris_lib::cell::TetrisCell), modelled from the design          *)
(* document: grid of width W and height H with row 0 on top, seven piece   *)
(* kinds with four rotation states each, shadow, held piece, payload.      *)
(***************************************************************************)
Kinds == 0..6
NoBlock == -1

BoxSize(kind) == IF kind = 0 THEN 4 ELSE IF kind = 1 THEN 2 ELSE 3

\* offsets <<column, row>> of a kind in rotation state 0
Shape(kind) ==
    CASE kind = 0 -> {<<0, 0>>, <<1, 0>>, <<2, 0>>, <<3, 0>>}
      [] kind = 1 -> {<<0, 0>>, <<1, 0>>, <<0, 1>>, <<1, 1>>}
      [] kind = 2 -> {<<1, 0>>, <<0, 1>>, <<1, 1>>, <<2, 1>>}
      [] kind = 3 -> {<<1, 0>>, <<2, 0>>, <<0, 1>>, <<1, 1>>}
      [] kind = 4 -> {<<0, 0>>, <<1, 0>>, <<1, 1>>, <<2, 1>>}
      [] kind = 5 -> {<<0, 0>>, <<0, 1>>, <<1, 1>>, <<2, 1>>}
      [] OTHER    -> {<<2, 0>>, <<0, 1>>, <<1, 1>>, <<2, 1>>}

\* offsets of a kind in rotation state z: z quarter turns clockwise
RECURSIVE BlockCells(_, _)
BlockCells(kind, z) ==
    IF z = 0 THEN Shape(kind)
    ELSE {<<BoxSize(kind) - 1 - c[2], c[1]>> : c \in BlockCells(kind, z - 1)}

PieceAt(kind, z, x, y) == {<<x + c[1], y + c[2]>> : c \in BlockCells(kind, z)}

\* a placement is valid when every cell is inside the side walls, above the
\* floor, and on an empty grid cell or above the top
Fits(grid, kind, z, x, y) ==
    \A p \in PieceAt(kind, z, x, y) :
        /\ p[1] >= 0 /\ p[1] < W
        /\ p[2] < H
        /\ (p[2] >= 0 => p \notin grid)

\* the row a piece reaches when projected straight down from row y
RECURSIVE ProjectDown(_, _, _, _, _)
ProjectDown(grid, kind, z, x, y) ==
    IF y < H /\ Fits(grid, kind, z, x, y + 1)
    THEN ProjectDown(grid, kind, z, x, y + 1)
    ELSE y

TetrisCell_new ==
    [grid |-> {}, cur |-> NoBlock, cur_x |-> 0, cur_y |-> 0, cur_z |-> 0,
     shadow_x |-> 0, shadow_y |-> 0, shadow_z |-> 0,
     save |-> NoBlock, save_lock |-> FALSE, game_over |-> FALSE,
     attack |-> [k \in 0..1 |-> 0], block_index |-> 0, pulled |-> <<>>]

make_shadow(b) ==
    [b EXCEPT !.shadow_x = b.cur_x, !.shadow_z = b.cur_z,
              !.shadow_y = ProjectDown(b.grid, b.cur, b.cur_z, b.cur_x, b.cur_y)]

\* put a piece of the given kind at the top; a colliding spawn is game over
spawn(b, kind) ==
    LET x == (W - BoxSize(kind)) \div 2 IN
    make_shadow([b EXCEPT !.cur = kind, !.cur_x = x, !.cur_y = 0, !.cur_z = 0,
                          !.game_over = ~Fits(b.grid, kind, 0, x, 0)])

\* pull the next kind from the queue at this board's own position; pulled
\* lists the kinds this board has taken from the queue since its reset
spawn_next(b, blks) ==
    spawn([b EXCEPT !.block_index = (b.block_index + 1) % BLKQUEUE,
                    !.pulled = Append(b.pulled, blks[b.block_index + 1])],
          blks[b.block_index + 1])

cell_reset(blks) == spawn_next(TetrisCell_new, blks)

TurnOf(d, z) == IF d = "TurnCw" THEN (z + 1) % 4
                ELSE IF d = "TurnCcw" THEN (z + 3) % 4 ELSE z
DxOf(d) == IF d = "Left" THEN -1 ELSE IF d = "Right" THEN 1 ELSE 0
DyOf(d) == IF d = "Down" THEN 1 ELSE 0

\* Move / Rotate: the piece changes only when the new placement is valid
move_block(b, d) ==
    LET z == TurnOf(d, b.cur_z)
        x == b.cur_x + DxOf(d)
        y == b.cur_y + DyOf(d)
    IN  IF Fits(b.grid, b.cur, z, x, y)
        THEN [b |-> [b EXCEPT !.cur_x = x, !.cur_y = y, !.cur_z = z],
              ret |-> "Normal"]
        ELSE [b |-> b,
              ret |-> IF d = "Down" THEN "ReachBottom" ELSE "Blocked"]

\* the horizontal nudges of a wall-kick command, one Move per letter
RECURSIVE nudge(_, _)
nudge(b, c) ==
    IF c = <<>> THEN [b |-> b, ok |-> TRUE]
    ELSE LET r == move_block(b, IF Head(c) = "L" THEN "Left" ELSE "Right")
         IN  IF r.ret = "Normal" THEN nudge(r.b, Tail(c))
             ELSE [b |-> b, ok |-> FALSE]

KickLetters(c) ==
    CASE c = "L" -> <<"L">> [] c = "LL" -> <<"L", "L">>
      [] c = "R" -> <<"R">> [] OTHER    -> <<"R", "R">>

\* nudge, retry the rotation, recompute the shadow; unchanged when it fails
help_turn(b, d, c) ==
    LET n == nudge(b, KickLetters(c))
        r == move_block(n.b, d)
    IN  IF n.ok /\ r.ret = "Normal"
        THEN [b |-> make_shadow(r.b), ok |-> TRUE]
        ELSE [b |-> b, ok |-> FALSE]

FullRows(grid) == {r \in 0..(H - 1) : \A x \in 0..(W - 1) : <<x, r>> \in grid}

\* remove the full rows and shift the rows above them down
clear_rows(grid) ==
    LET full == FullRows(grid) IN
    {<<p[1], p[2] + Cardinality({r \in full : r > p[2]})>> :
        p \in {q \in grid : q[2] \notin full}}

\* payload of a lock that cleared n rows: <<garbage rows, attack code>>
payload(n) == [k \in 0..1 |-> IF k = 0 THEN n ELSE IF n >= 4 THEN 2 ELSE 1]

\* Lock: merge the piece, clear the full rows, produce the payload
lock(b) ==
    LET merged == b.grid \cup {p \in PieceAt(b.cur, b.cur_z, b.cur_x, b.cur_y) :
                                   p[2] >= 0}
        n == Cardinality(FullRows(merged))
    IN  [b EXCEPT !.grid = clear_rows(merged),
                  !.attack = IF n > 0 THEN payload(n) ELSE b.attack,
                  !.save_lock = FALSE]

\* next_block(blks, ai, issave): lock the piece unless it went to the held
\* slot, then spawn the next kind
next_block(b, blks, issave) ==
    spawn_next(IF issave THEN b ELSE lock(b), blks)

\* Hold: at most once between locks
save_block(b, blks) ==
    IF b.save_lock THEN b
    ELSE IF b.save = NoBlock
         THEN next_block([b EXCEPT !.save = b.cur, !.save_lock = TRUE], blks, TRUE)
         ELSE spawn([b EXCEPT !.save = b.cur, !.save_lock = TRUE], b.save)

\* descent to the bottom
RECURSIVE fall(_)
fall(b) ==
    LET r == move_block(b, "Down") IN
    IF r.ret = "Normal" THEN fall(r.b) ELSE b

\* timer_process(blks): when this board's fall timer has fired, drop the
\* piece to the bottom, lock it and spawn the next one
timer_process(b, blks, fired) ==
    IF fired THEN next_block(fall(b), blks, FALSE) ELSE b

\* one garbage row at the bottom, with a gap at the given column
garbage_row(grid, gap) ==
    {<<p[1], p[2] - 1>> : p \in grid}
        \cup {<<x, H - 1>> : x \in (0..(W - 1)) \ {gap}}

\* attacked(rand, rows, code): insert the garbage rows, one draw of the
\* generator per row; cells pushed above the top make the board game over
RECURSIVE attacked(_, _, _, _)
attacked(b, s, rows, code) ==
    IF rows = 0 THEN [b |-> b, s |-> s]
    ELSE LET s1 == rand(s)
             g == garbage_row(b.grid, s1 % W)
             over == \E p \in g : p[2] < 0
         IN  attacked([b EXCEPT !.grid = {p \in g : p[2] >= 0},
                                !.game_over = b.game_over \/ over],
                      s1, rows - 1, code)

(***************************************************************************)
(* Timer and event system (rust_pixel::event), modelled from the design    *)
(* document: timer_fire(name, 0) leaves the named timer fired until the    *)
(* board's timer processing takes it.                                      *)
(***************************************************************************)
\* format!("fall{}", index)
FallTimer(index) == IF index = 0 THEN "fall0" ELSE "fall1"

(***************************************************************************)
(* Match controller (model.rs).  The operators below take and return the   *)
(* fields of TetrisModel and the fired timers as a record m; m.trace        *)
(* collects the calls in the order the code makes them.                    *)
(***************************************************************************)
Call(op, idx, d, c, ret, a0, a1) ==
    [op |-> op, idx |-> idx, d |-> d, c |-> c, ret |-> ret, a0 |-> a0, a1 |-> a1]

Log(m, e) == [m EXCEPT !.trace = Append(m.trace, e)]

Moves == {"TurnCw", "TurnCcw", "DropDown", "Down", "Left", "Right", "Save", "Restart"}

RECURSIVE FillQueueMod8(_, _, _)
FillQueueMod8(q, s, i) ==
    IF i >= BLKQUEUE THEN [q |-> q, s |-> s]
    ELSE FillQueueMod8([q EXCEPT ![i + 1] = rand(s) % 8], rand(s), i + 1)

\* the for loop of random_block_queue over the slots i..BLKQUEUE-1
RECURSIVE fill_queue(_, _, _)
fill_queue(q, s, i) ==
    IF i >= BLKQUEUE THEN [q |-> q, s |-> s]
    ELSE fill_queue([q EXCEPT ![i + 1] = rand(s) % 7], rand(s), i + 1)

\* srand(seed), srand_now() (now is the time-derived seed), then the fill
random_block_queue(m, seed, now) ==
    LET f == fill_queue(m.block_queue, srand_now(srand(seed), now), 0) IN
    [m EXCEPT !.block_queue = f.q, !.trand = f.s]

ResetOwnQueues(m, now) ==
    LET m1 == random_block_queue(m, 0, now)
        m2 == random_block_queue(m1, 0, now + 1)
    IN  Log(Log(Log([m2 EXCEPT !.cells = [i \in 0..1 |->
                         cell_reset(IF i = 0 THEN m1.block_queue
                                             ELSE m2.block_queue)]],
                    Call("cell.reset", 0, "", "", "", 0, 0)),
                Call("cell.reset", 1, "", "", "", 0, 0)),
            Call("event_emit", 0, "Tetris.RedrawGrid", "", "", 0, 0))

reset(m, now) ==
    LET m1 == random_block_queue(m, 0, now)
        m2 == Log([m1 EXCEPT !.cells[0] = cell_reset(m1.block_queue)],
                  Call("cell.reset", 0, "", "", "", 0, 0))
        m3 == Log([m2 EXCEPT !.cells[1] = cell_reset(m2.block_queue)],
                  Call("cell.reset", 1, "", "", "", 0, 0))
    IN  Log(m3, Call("event_emit", 0, "Tetris.RedrawGrid", "", "", 0, 0))

CmdsRightFirst == <<"R", "RR", "L", "LL">>

\* let cmds = ["L", "LL", "R", "RR"]
cmds == <<"L", "LL", "R", "RR">>

\* for c in cmds { if help_turn(d, c) { return; } }, from the i-th command on
RECURSIVE try_cmds(_, _, _, _)
try_cmds(m, index, d, i) ==
    IF i > Len(cmds) THEN m
    ELSE LET r == help_turn(m.cells[index], d, cmds[i])
             m1 == Log([m EXCEPT !.cells[index] = r.b],
                       Call("help_turn", index, d, cmds[i],
                            IF r.ok THEN "true" ELSE "false", 0, 0))
         IN  IF r.ok THEN m1 ELSE try_cmds(m1, index, d, i + 1)

\* Move::TurnCw | Move::TurnCcw
act_turn(m, index, d) ==
    LET r == move_block(m.cells[index], d)
        m1 == Log([m EXCEPT !.cells[index] = r.b],
                  Call("move_block", index, d, "", r.ret, 0, 0))
    IN  IF r.ret = "Normal"
        THEN Log([m1 EXCEPT !.cells[index] = make_shadow(m1.cells[index])],
                 Call("make_shadow", index, "", "", "", 0, 0))
        ELSE try_cmds(m1, index, d, 1)

ActDropdownBoard0(m, index) ==
    Log([m EXCEPT !.timers = m.timers \cup {FallTimer(0)}],
        Call("timer_fire", index, FallTimer(0), "", "", 0, 0))

\* Move::DropDown: timer_fire(&format!("fall{}", index), 0)
act_dropdown(m, index) ==
    Log([m EXCEPT !.timers = m.timers \cup {FallTimer(index)}],
        Call("timer_fire", index, FallTimer(index), "", "", 0, 0))

ActDownNoLock(m, index) ==
    LET r == move_block(m.cells[index], "Down") IN
    Log([m EXCEPT !.cells[index] = r.b],
        Call("move_block", index, "Down", "", r.ret, 0, 0))

\* Move::Down
act_down(m, index) ==
    LET r == move_block(m.cells[index], "Down")
        m1 == Log([m EXCEPT !.cells[index] = r.b],
                  Call("move_block", index, "Down", "", r.ret, 0, 0))
    IN  IF r.ret = "ReachBottom"
        THEN Log([m1 EXCEPT !.cells[index] =
                      next_block(m1.cells[index], m1.block_queue, FALSE)],
                 Call("next_block", index, "", "", "", 0, 0))
        ELSE m1

ActSideNoShadow(m, index, d) ==
    LET r == move_block(m.cells[index], d) IN
    Log(Log([m EXCEPT !.cells[index] = r.b],
            Call("move_block", index, d, "", r.ret, 0, 0)),
        Call("make_shadow", index, "", "", "", 0, 0))

ActSideUnchecked(m, index, d) ==
    LET m1 == Log([m EXCEPT !.cells[index].cur_x = @ + DxOf(d)],
                  Call("move_block", index, d, "", "Normal", 0, 0))
    IN  Log([m1 EXCEPT !.cells[index] = make_shadow(m1.cells[index])],
            Call("make_shadow", index, "", "", "", 0, 0))

\* Move::Left | Move::Right
act_side(m, index, d) ==
    LET r == move_block(m.cells[index], d)
        m1 == Log([m EXCEPT !.cells[index] = r.b],
                  Call("move_block", index, d, "", r.ret, 0, 0))
    IN  Log([m1 EXCEPT !.cells[index] = make_shadow(m1.cells[index])],
            Call("make_shadow", index, "", "", "", 0, 0))

\* Move::Save
act_save(m, index) ==
    LET m1 == Log([m EXCEPT !.cells[index] =
                       save_block(m.cells[index], m.block_queue)],
                  Call("save_block", index, "", "", "", 0, 0))
    IN  Log([m1 EXCEPT !.cells[index] = make_shadow(m1.cells[index])],
            Call("make_shadow", index, "", "", "", 0, 0))

\* the match on d, reached when neither board is game over
act_match(m, index, d) ==
    CASE d \in {"TurnCw", "TurnCcw"} -> act_turn(m, index, d)
      [] d = "DropDown"              -> act_dropdown(m, index)
      [] d = "Down"                  -> act_down(m, index)
      [] d \in {"Left", "Right"}     -> act_side(m, index, d)
      [] d = "Save"                  -> act_save(m, index)
      [] OTHER                       -> m

ActNoGuard(m, index, d, now) ==
    LET m0 == Log(m, Call("act", index, d, "", "", 0, 0))
        m1 == IF d = "Restart" THEN reset(m0, now) ELSE m0
    IN  act_match(m1, index, d)

ActGuardFirst(m, index, d, now) ==
    LET m0 == Log(m, Call("act", index, d, "", "", 0, 0)) IN
    IF m0.cells[0].game_over \/ m0.cells[1].game_over
    THEN m0
    ELSE act_match(IF d = "Restart" THEN reset(m0, now) ELSE m0, index, d)

\* act(index, d); now is the time srand_now() reads if the call resets
act(m, index, d, now) ==
    LET m0 == Log(m, Call("act", index, d, "", "", 0, 0))
        m1 == IF d = "Restart" THEN reset(m0, now) ELSE m0
    IN  IF m1.cells[0].game_over \/ m1.cells[1].game_over
        THEN m1
        ELSE act_match(m1, index, d)

\* the match on key.code of handle_input: Some(d) or None
key_move(code) ==
    CASE code = " " -> "DropDown"
      [] code = "o" -> "TurnCcw"
      [] code = "i" -> "TurnCw"
      [] code = "j" -> "Left"
      [] code = "k" -> "Down"
      [] code = "l" -> "Right"
      [] code = "s" -> "Save"
      [] code = "r" -> "Restart"
      [] OTHER      -> "None"

\* the input events of the model: the eight mapped keys, one key with no
\* mapping, and one event that is not a key
KeyCodes == {" ", "o", "i", "j", "k", "l", "s", "r", "x"}
Events == [kind : {"Key"}, code : KeyCodes] \cup {[kind |-> "Mouse", code |-> ""]}

\* for e in &es { ... }
RECURSIVE input_loop(_, _, _)
input_loop(m, es, now) ==
    IF es = <<>> THEN m
    ELSE LET e == Head(es)
             d == IF e.kind = "Key" THEN key_move(e.code) ELSE "None"
         IN  input_loop(IF d # "None" THEN act(m, 0, d, now) ELSE m,
                        Tail(es), now)

HandleInputNoClear(m, es, now) == input_loop(m, es, now)

\* handle_input: es is the clone of context.input_events the loop runs
\* over; context.input_events.clear() ends the call
handle_input(m, es, now) ==
    [input_loop(m, es, now) EXCEPT !.input_events = <<>>]

\* the body of the for loop of handle_timer for board i; the entry logged
\* for attacked tells whether the attacked board was game over before the
\* call (d) and after it (ret)
timer_board(m, i) ==
    IF m.cells[i].game_over THEN m
    ELSE
    LET fired == FallTimer(i) \in m.timers
        m1 == Log([m EXCEPT !.cells[i] =
                       timer_process(m.cells[i], m.block_queue, fired),
                            !.timers = m.timers \ {FallTimer(i)}],
                  Call("timer_process", i, "", "",
                       IF fired THEN "fall" ELSE "", 0, 0))
        a0 == m1.cells[i].attack[0]
        a1 == m1.cells[i].attack[1]
    IN  IF a0 # 0
        THEN LET r == attacked(m1.cells[1 - i], m1.trand, a0, a1)
                 m2 == Log([m1 EXCEPT !.cells[1 - i] = r.b, !.trand = r.s],
                           Call("attacked", 1 - i,
                                IF m1.cells[1 - i].game_over THEN "over" ELSE "",
                                "",
                                IF r.b.game_over THEN "over" ELSE "", a0, a1))
                 m3 == Log([m2 EXCEPT !.cells[1 - i] = make_shadow(m2.cells[1 - i])],
                           Call("make_shadow", 1 - i, "", "", "", 0, 0))
             IN  [m3 EXCEPT !.cells[i].attack[0] = 0]
        ELSE m1

HandleTimerBoard1First(m) == timer_board(timer_board(m, 1), 0)

\* for i in 0..2
handle_timer(m) == timer_board(timer_board(m, 0), 1)

\* the chars get_ai_act returns in the model: the five the match of
\* handle_auto names and one other
AiChars == {"S", "T", "W", "L", "R", " "}

AiMoveDefaultDown(c) ==
    CASE c = "S" -> "Save"
      [] c = "T" -> "TurnCw"
      [] c = "W" -> "DropDown"
      [] c = "L" -> "Left"
      [] c = "R" -> "Right"
      [] OTHER   -> "Down"

\* the match on c of handle_auto: Some(d) or None
ai_move(c) ==
    CASE c = "S" -> "Save"
      [] c = "T" -> "TurnCw"
      [] c = "W" -> "DropDown"
      [] c = "L" -> "Left"
      [] c = "R" -> "Right"
      [] OTHER   -> "None"

\* thresholds of handle_auto in 1/100 s: 0.4 and 0.1
AutoThreshold == 40
AiThreshold == 10

\* tai.get_ai_act(&block_queue, &mut cells[1]) (tetris_lib::ai, modelled from
\* the design document): it reads the board and the queue, returns the char
\* c and leaves the AI's work index at w
get_ai_act(m, c, w) ==
    Log([m EXCEPT !.work2idx = w], Call("get_ai_act", 1, "", c, "", 0, 0))

AutoFallKeepRemainder(m, dt) ==
    IF m.timeout_auto > AutoThreshold
    THEN act([m EXCEPT !.timeout_auto = m.timeout_auto - AutoThreshold],
             0, "Down", 0)
    ELSE [m EXCEPT !.timeout_auto = m.timeout_auto + dt]

\* the auto-fall part of handle_auto
auto_fall(m, dt) ==
    IF m.timeout_auto > AutoThreshold
    THEN act([m EXCEPT !.timeout_auto = 0], 0, "Down", 0)
    ELSE [m EXCEPT !.timeout_auto = m.timeout_auto + dt]

\* the AI part of handle_auto
auto_ai(m, dt, c, w) ==
    IF m.timeout_ai > AiThreshold
    THEN LET m1 == get_ai_act([m EXCEPT !.timeout_ai = 0], c, w)
             d == ai_move(c)
         IN  IF d # "None" THEN act(m1, 1, d, 0) ELSE m1
    ELSE [m EXCEPT !.timeout_ai = m.timeout_ai + dt]

\* handle_auto(dt): c and w are what the AI answers during the call
handle_auto(m, dt, c, w) ==
    LET m1 == IF m.work2idx >= 0 THEN get_ai_act(m, c, w) ELSE m
    IN  auto_ai(auto_fall(m1, dt), dt, c, w)

(***************************************************************************)
(* The state machine.                                                      *)
(***************************************************************************)
\* TetrisModel as a record, with an empty trace for the call about to run
Self ==
    [cells |-> cells, block_queue |-> block_queue, trand |-> trand,
     work2idx |-> work2idx, timeout_auto |-> timeout_auto,
     timeout_ai |-> timeout_ai, timers |-> timers,
     input_events |-> input_events, trace |-> <<>>]

\* the model with the events es queued by the engine since the last frame
Queued(es) == [Self EXCEPT !.input_events = input_events \o es]

\* a handler call with its arguments; over tells whether a board was game
\* over when the call was made
HandlerCall(fn, index, d, dt, es) ==
    [fn |-> fn, index |-> index, d |-> d, dt |-> dt, es |-> es,
     over |-> cells[0].game_over \/ cells[1].game_over]

Store(m) ==
    /\ cells' = m.cells
    /\ block_queue' = m.block_queue
    /\ trand' = m.trand
    /\ work2idx' = m.work2idx
    /\ timeout_auto' = m.timeout_auto
    /\ timeout_ai' = m.timeout_ai
    /\ timers' = m.timers
    /\ input_events' = m.input_events
    /\ trace' = m.trace

\* elapsed times handed to handle_auto, in 1/100 s
DtChoices == {25, 50, 300}
Seeds == 0..MaxSeed
WorkIdx == {-1, 0}

RECURSIVE SeqsUpTo(_, _)
SeqsUpTo(S, n) ==
    IF n = 0 THEN {<<>>}
    ELSE LET shorter == SeqsUpTo(S, n - 1)
         IN  shorter \cup {Append(q, e) : q \in shorter, e \in S}

\* TetrisModel::new()
Init ==
    /\ cells = [i \in 0..1 |-> TetrisCell_new]
    /\ block_queue = [i \in 1..BLKQUEUE |-> 0]
    /\ trand = 0
    /\ work2idx = -1
    /\ timeout_auto = 0
    /\ timeout_ai = 0
    /\ timers = {}
    /\ input_events = <<>>
    /\ trace = <<>>
    /\ call = HandlerCall("new", 0, "", 0, <<>>)
    /\ phase = "new"
    /\ steps = 0
    /\ c_pc = "off"
    /\ c_idx = 0
    /\ c_sym = <<>>
    /\ c_ret = 0

\* Model::init
ModelInit ==
    /\ phase = "new"
    /\ \E now \in Seeds : Store(reset(Self, now))
    /\ steps' = steps + 1
    /\ call' = HandlerCall("init", 0, "", 0, <<>>)
    /\ phase' = "run"
    /\ UNCHANGED cvars

Running == phase = "run" /\ steps < MaxSteps

\* only a Restart key reads the time
NowChoices(es) ==
    IF \E k \in 1..Len(es) : es[k].code = "r" THEN Seeds ELSE {0}

\* a handle_input call counts as one step per queued event, and at least one
InputSteps(es) == IF es = <<>> THEN 1 ELSE Len(es)

HandleInput ==
    /\ Running
    /\ \E es \in SeqsUpTo(Events, MaxInput) : \E now \in NowChoices(es) :
           /\ steps + InputSteps(es) <= MaxSteps
           /\ steps' = steps + InputSteps(es)
           /\ Store(handle_input(Queued(es), Queued(es).input_events, now))
           /\ call' = HandlerCall("handle_input", 0, "", 0, es)
    /\ UNCHANGED <<phase, c_pc, c_idx, c_sym, c_ret>>

HandleTimer ==
    /\ Running
    /\ Store(handle_timer(Self))
    /\ steps' = steps + 1
    /\ call' = HandlerCall("handle_timer", 0, "", 0, <<>>)
    /\ UNCHANGED <<phase, c_pc, c_idx, c_sym, c_ret>>

HandleAuto ==
    /\ Running
    /\ \E dt \in DtChoices, c \in AiChars, w \in WorkIdx :
           /\ Store(handle_auto(Self, dt, c, w))
           /\ steps' = steps + 1
           /\ call' = HandlerCall("handle_auto", 0, "", dt, <<>>)
    /\ UNCHANGED <<phase, c_pc, c_idx, c_sym, c_ret>>

\* a direct call of the public act
Act ==
    /\ Running
    /\ \E index \in 0..1, d \in Moves :
       \E now \in (IF d = "Restart" THEN Seeds ELSE {0}) :
           /\ Store(act(Self, index, d, now))
           /\ steps' = steps + 1
           /\ call' = HandlerCall("act", index, d, 0, <<>>)
    /\ UNCHANGED <<phase, c_pc, c_idx, c_sym, c_ret>>

Next == ModelInit \/ HandleInput \/ HandleTimer \/ HandleAuto \/ Act

Spec == Init /\ [][Next]_vars

(***************************************************************************)
(* The codec run: cellsym on an index, then cellinfo on its result; or     *)
(* cellinfo on a string of the caller.                                     *)
(***************************************************************************)
\* highest code point of the one-char strings handed to cellinfo: past the
\* last key of CELL_SYM_MAP, U+2592
MaxCodePoint == 9727
\* longest string of more than one char handed to cellinfo
MaxGlyphs == 3
\* the chars these longer strings are made of: a, e acute, U+2200, U+2219,
\* U+2587
GlyphChars == {97, 233, 8704, 8729, 9607}

CodecStrings ==
    {<<cp>> : cp \in 0..MaxCodePoint} \cup SeqsUpTo(GlyphChars, MaxGlyphs)

CodecInit ==
    /\ cells = [i \in 0..1 |-> TetrisCell_new]
    /\ block_queue = [i \in 1..BLKQUEUE |-> 0]
    /\ trand = 0
    /\ work2idx = -1
    /\ timeout_auto = 0
    /\ timeout_ai = 0
    /\ timers = {}
    /\ input_events = <<>>
    /\ trace = <<>>
    /\ call = HandlerCall("new", 0, "", 0, <<>>)
    /\ phase = "new"
    /\ steps = 0
    /\ \/ c_pc = "start" /\ c_idx \in 0..255 /\ c_sym = <<>>
       \/ c_pc = "arg" /\ c_idx = 0 /\ c_sym \in CodecStrings
    /\ c_ret = 0

Cellsym ==
    /\ c_pc = "start"
    /\ c_sym' = cellsym(c_idx)
    /\ c_pc' = "sym"
    /\ UNCHANGED <<c_idx, c_ret>>
    /\ UNCHANGED gvars

Cellinfo ==
    /\ c_pc = "sym"
    /\ c_ret' = cellinfo(c_sym)
    /\ c_pc' = "done"
    /\ UNCHANGED <<c_idx, c_sym>>
    /\ UNCHANGED gvars

\* cellinfo called on the caller's string
CellinfoArg ==
    /\ c_pc = "arg"
    /\ c_ret' = cellinfo(c_sym)
    /\ c_pc' = "ret"
    /\ UNCHANGED <<c_idx, c_sym>>
    /\ UNCHANGED gvars

CodecNext == Cellsym \/ Cellinfo \/ CellinfoArg

CodecSpec == CodecInit /\ [][CodecNext]_vars

(***************************************************************************)
(* Soft-drop play on board 0: single j, k and l key presses and timer      *)
(* ticks only, explored deeper than Spec.                                  *)
(***************************************************************************)
\* number of handler calls explored in soft-drop play
MaxSoftSteps == 7

SoftKeys == {"j", "k", "l"}

SoftInput ==
    /\ phase = "run" /\ steps < MaxSoftSteps
    /\ \E code \in SoftKeys :
           LET es == <<[kind |-> "Key", code |-> code]>> IN
           /\ Store(handle_input(Queued(es), Queued(es).input_events, 0))
           /\ call' = HandlerCall("handle_input", 0, "", 0, es)
    /\ steps' = steps + 1
    /\ UNCHANGED <<phase, c_pc, c_idx, c_sym, c_ret>>

SoftTimer ==
    /\ phase = "run" /\ steps < MaxSoftSteps
    /\ Store(handle_timer(Self))
    /\ call' = HandlerCall("handle_timer", 0, "", 0, <<>>)
    /\ steps' = steps + 1
    /\ UNCHANGED <<phase, c_pc, c_idx, c_sym, c_ret>>

SoftNext == ModelInit \/ SoftInput \/ SoftTimer

SoftDropSpec == Init /\ [][SoftNext]_vars

(***************************************************************************)
(* Hard-drop play: the player holds and hard-drops, the opponent           *)
(* hard-drops, the timers tick; explored as deep as soft-drop play.        *)
(***************************************************************************)
HardKeys == {"s", " "}

HardInput ==
    /\ phase = "run" /\ steps < MaxSoftSteps
    /\ \E code \in HardKeys :
           LET es == <<[kind |-> "Key", code |-> code]>> IN
           /\ Store(handle_input(Queued(es), Queued(es).input_events, 0))
           /\ call' = HandlerCall("handle_input", 0, "", 0, es)
    /\ steps' = steps + 1
    /\ UNCHANGED <<phase, c_pc, c_idx, c_sym, c_ret>>

\* the opponent's hard drop, as handle_auto dispatches it
HardOpponent ==
    /\ phase = "run" /\ steps < MaxSoftSteps
    /\ Store(act(Self, 1, "DropDown", 0))
    /\ call' = HandlerCall("act", 1, "DropDown", 0, <<>>)
    /\ steps' = steps + 1
    /\ UNCHANGED <<phase, c_pc, c_idx, c_sym, c_ret>>

HardNext == ModelInit \/ HardInput \/ HardOpponent \/ SoftTimer

HardDropSpec == Init /\ [][HardNext]_vars

(***************************************************************************)
(* Stacking play: both sides rotate, shift right and hard-drop, the timers *)
(* tick; deep enough for a piece stacked to the top row and a row cleared  *)
(* by the next piece.                                                      *)
(***************************************************************************)
\* number of handler calls explored in stacking play
MaxStackSteps == 12

StackKeys == {"o", "l", " "}
StackMoves == {"TurnCcw", "Right", "DropDown"}

StackInput ==
    /\ phase = "run" /\ steps < MaxStackSteps
    /\ \E code \in StackKeys :
           LET es == <<[kind |-> "Key", code |-> code]>> IN
           /\ Store(handle_input(Queued(es), Queued(es).input_events, 0))
           /\ call' = HandlerCall("handle_input", 0, "", 0, es)
    /\ steps' = steps + 1
    /\ UNCHANGED <<phase, c_pc, c_idx, c_sym, c_ret>>

\* the public act called for board 1
StackOpponent ==
    /\ phase = "run" /\ steps < MaxStackSteps
    /\ \E d \in StackMoves :
           /\ Store(act(Self, 1, d, 0))
           /\ call' = HandlerCall("act", 1, d, 0, <<>>)
    /\ steps' = steps + 1
    /\ UNCHANGED <<phase, c_pc, c_idx, c_sym, c_ret>>

StackTimer ==
    /\ phase = "run" /\ steps < MaxStackSteps
    /\ Store(handle_timer(Self))
    /\ call' = HandlerCall("handle_timer", 0, "", 0, <<>>)
    /\ steps' = steps + 1
    /\ UNCHANGED <<phase, c_pc, c_idx, c_sym, c_ret>>

StackNext == ModelInit \/ StackInput \/ StackOpponent \/ StackTimer

StackSpec == Init /\ [][StackNext]_vars

(***************************************************************************)
(* Properties.                                                             *)
(***************************************************************************)
TraceIdx == 1..Len(trace)

\* C1: for every index i in 0..255 the glyph cellsym(i) is the one char
\* U+2200 + i, cellinfo(cellsym(i)) = i (so cellsym of it is the same glyph
\* again), and the sum of the bit extraction fits in 8 bits
C1_RoundTrip ==
    /\ c_pc \in {"sym", "done"} => c_sym = <<8704 + c_idx>>
    /\ c_pc = "done" =>
           /\ c_ret = c_idx
           /\ cellsym(c_ret) = c_sym
           /\ cellinfo_sum(as_bytes(c_sym)) < 256

C1_Witness == c_pc = "done" /\ c_idx = 255 /\ c_ret = 255

\* C2 as stated: a handle_input call never calls next_block, that is, a
\* manual Down whose move is rejected does not lock the piece
C2_ManualDownNeverLocks ==
    call.fn = "handle_input" => \A k \in TraceIdx : trace[k].op # "next_block"

\* C2 amended: whichever handler dispatched it, a Down command calls
\* next_block exactly when its move_block returned ReachBottom, a manual
\* Down included
C2_DownLocksOnReachBottom ==
    \A k \in TraceIdx :
        /\ (trace[k].op = "move_block" /\ trace[k].d = "Down") =>
               (trace[k].ret = "ReachBottom" <=>
                    /\ k < Len(trace)
                    /\ trace[k + 1].op = "next_block"
                    /\ trace[k + 1].idx = trace[k].idx)
        /\ trace[k].op = "next_block" =>
               /\ k > 1
               /\ trace[k - 1].op = "move_block"
               /\ trace[k - 1].d = "Down"
               /\ trace[k - 1].ret = "ReachBottom"

C2_ManualLockReached ==
    /\ call.fn = "handle_input"
    /\ \E k \in TraceIdx :
           /\ trace[k].op = "next_block"
           /\ trace[k - 1].ret = "ReachBottom"
           /\ \E j \in 1..Len(call.es) : call.es[j].code = "k"

\* C3: attack conservation: when a handle_timer call returns, every payload
\* produced so far has been applied to the other board and cleared, so no
\* board holds a non-zero payload row count, and the call applied at most
\* one payload to each board
C3_AttackConservation ==
    call.fn = "handle_timer" =>
        \A i \in 0..1 :
            /\ cells[i].attack[0] = 0
            /\ Cardinality({k \in TraceIdx : trace[k].op = "attacked"
                                             /\ trace[k].idx = i}) <= 1

ActIdx == {k \in TraceIdx : trace[k].op = "act"}
LastAct == CHOOSE k \in ActIdx : \A j \in ActIdx : j <= k
Turns == {"TurnCw", "TurnCcw"}
AnyOver == cells[0].game_over \/ cells[1].game_over

\* C4: queue fairness: after reset the kinds each board has pulled are the
\* slots of the one block_queue in order, so the sequences the two boards
\* see agree, and only a call that resets changes block_queue
C4_QueueFairness ==
    /\ [](phase = "run" =>
            /\ \A i \in 0..1 :
                   /\ Len(cells[i].pulled) >= 1
                   /\ \A k \in 1..Len(cells[i].pulled) :
                          cells[i].pulled[k] = block_queue[((k - 1) % BLKQUEUE) + 1]
            /\ \A k \in 1..Len(cells[0].pulled) :
                   k <= Len(cells[1].pulled) =>
                       cells[0].pulled[k] = cells[1].pulled[k])
    /\ [][block_queue' # block_queue =>
              \/ call'.fn = "init"
              \/ \E k \in 1..Len(trace') :
                     trace'[k].op = "act" /\ trace'[k].d = "Restart"]_vars

C4_Witness ==
    /\ phase = "run"
    /\ Len(cells[0].pulled) >= 2
    /\ Len(cells[1].pulled) >= 2
    /\ cells[0].pulled[1] # cells[0].pulled[2]

\* C5: with a board game over, a handler call that dispatches no Restart
\* runs no board operation and fires no timer, and leaves boards, queue,
\* generator and timers as they were; a direct act or a handle_input call
\* also leaves the accumulators as they were
C5_GameOverNoOp ==
    [][(/\ AnyOver
        /\ steps' # steps
        /\ call'.fn \in {"act", "handle_input", "handle_auto"}
        /\ \A k \in 1..Len(trace') :
               ~(trace'[k].op = "act" /\ trace'[k].d = "Restart"))
       => /\ \A k \in 1..Len(trace') : trace'[k].op \in {"act", "get_ai_act"}
          /\ cells' = cells
          /\ block_queue' = block_queue
          /\ trand' = trand
          /\ timers' = timers
          /\ call'.fn # "handle_auto" =>
                 /\ timeout_auto' = timeout_auto
                 /\ timeout_ai' = timeout_ai
                 /\ work2idx' = work2idx]_vars

C5_Witness ==
    /\ call.fn = "act" /\ call.index = 1 /\ call.d = "Left"
    /\ call.over
    /\ cells[0].game_over /\ ~cells[1].game_over
    /\ Len(trace) = 1

\* C6: a Restart dispatched last in a call, whatever the state and the index,
\* resets board 0 and board 1 from the regenerated queue and emits the
\* redraw event: both boards are fresh boards of the one block_queue and
\* neither is game over
C6_RestartReinitialises ==
    (call.fn \in {"act", "handle_input"} /\ ActIdx # {}) =>
        (trace[LastAct].d = "Restart" =>
            /\ Len(trace) = LastAct + 3
            /\ trace[LastAct + 1].op = "cell.reset" /\ trace[LastAct + 1].idx = 0
            /\ trace[LastAct + 2].op = "cell.reset" /\ trace[LastAct + 2].idx = 1
            /\ trace[LastAct + 3].op = "event_emit"
            /\ trace[LastAct + 3].d = "Tetris.RedrawGrid"
            /\ \A i \in 0..1 :
                   /\ cells[i] = cell_reset(block_queue)
                   /\ ~cells[i].game_over
            /\ \A k \in 1..BLKQUEUE : block_queue[k] \in 0..6)

C6_Witness ==
    /\ call.fn = "act" /\ call.index = 1 /\ call.d = "Restart"
    /\ call.over
    /\ ~AnyOver
    /\ Len(trace) = 4

\* C7: wall-kick precedence: a rotation that succeeds in place is followed
\* by make_shadow and no nudge; otherwise help_turn is tried with L, LL, R,
\* RR in this order, each only after the one before it failed, and nothing
\* is tried after one succeeds; when all four fail the boards are unchanged,
\* and when one succeeds the piece is moved by that nudge and turned once
KickOrder(j) ==
    LET e == trace[j] IN
    /\ (e.op = "move_block" /\ e.d \in Turns) =>
           /\ j < Len(trace)
           /\ IF e.ret = "Normal"
              THEN /\ trace[j + 1].op = "make_shadow"
                   /\ (j + 1 < Len(trace) => trace[j + 2].op = "act")
              ELSE /\ trace[j + 1].op = "help_turn"
                   /\ trace[j + 1].c = "L"
    /\ e.op = "help_turn" =>
           /\ j > 1
           /\ trace[j - 1].idx = e.idx /\ trace[j - 1].d = e.d
           /\ e.c \in {"L", "LL", "R", "RR"}
           /\ e.c = "L" => trace[j - 1].op = "move_block" /\ trace[j - 1].ret # "Normal"
           /\ e.c # "L" =>
                  /\ trace[j - 1].op = "help_turn"
                  /\ trace[j - 1].ret = "false"
                  /\ trace[j - 1].c = (CASE e.c = "LL" -> "L" [] e.c = "R" -> "LL"
                                         [] OTHER -> "R")
           /\ (e.ret = "true" \/ e.c = "RR") =>
                  (j < Len(trace) => trace[j + 1].op = "act")
           /\ (e.ret = "false" /\ e.c # "RR") =>
                  /\ j < Len(trace)
                  /\ trace[j + 1].op = "help_turn"

KickDx(c) == CASE c = "L" -> -1 [] c = "LL" -> -2 [] c = "R" -> 1 [] OTHER -> 2

C7_WallKickPrecedence ==
    /\ [](\A j \in TraceIdx : KickOrder(j))
    /\ [][(/\ call'.fn = "act"
           /\ steps' # steps
           /\ trace'[Len(trace')].op = "help_turn")
          => LET e == trace'[Len(trace')]
                 old == cells[e.idx]
                 new == cells'[e.idx]
             IN  /\ cells'[1 - e.idx] = cells[1 - e.idx]
                 /\ e.ret = "false" => (Len(trace') = 6 /\ new = old)
                 /\ e.ret = "true" =>
                        /\ new.cur_x = old.cur_x + KickDx(e.c)
                        /\ new.cur_z = (old.cur_z + (IF e.d = "TurnCw" THEN 1 ELSE 3)) % 4
                        /\ new.cur_y = old.cur_y
                        /\ new.cur = old.cur
                        /\ new.grid = old.grid]_vars

\* a rotation accepted through the nudge R after in place, L and LL failed
C7_Witness ==
    /\ call.fn = "act"
    /\ Len(trace) = 5
    /\ trace[2].op = "move_block" /\ trace[2].ret = "Blocked"
    /\ trace[3].c = "L" /\ trace[3].ret = "false"
    /\ trace[4].c = "LL" /\ trace[4].ret = "false"
    /\ trace[5].c = "R" /\ trace[5].ret = "true"

\* the shadow is the straight-down projection of the current piece
ShadowOK(b) ==
    /\ b.shadow_x = b.cur_x
    /\ b.shadow_z = b.cur_z
    /\ b.shadow_y >= b.cur_y
    /\ \A y \in (b.cur_y + 1)..b.shadow_y : Fits(b.grid, b.cur, b.cur_z, b.cur_x, y)
    /\ ~Fits(b.grid, b.cur, b.cur_z, b.cur_x, b.shadow_y + 1)

\* the last act of the call moved or rotated the piece, or was a Save
MovedLast ==
    /\ ActIdx # {}
    /\ LastAct < Len(trace)
    /\ LET e == trace[LastAct] IN
       \/ e.d \in {"Left", "Right"} /\ trace[LastAct + 1].ret = "Normal"
       \/ e.d \in Turns /\ (\/ trace[LastAct + 1].ret = "Normal"
                            \/ trace[Len(trace)].ret = "true")
       \/ e.d = "Save"

DownsIn(t) == {k \in 1..Len(t) : t[k].op = "act" /\ t[k].d = "Down"}

C9_AutoFallCadence ==
    [][(call'.fn = "handle_auto" /\ steps' # steps) =>
          /\ Cardinality(DownsIn(trace')) <= 1
          /\ \A k \in DownsIn(trace') : trace'[k].idx = 0
          /\ IF timeout_auto > 40
             THEN DownsIn(trace') # {} /\ timeout_auto' = 0
             ELSE DownsIn(trace') = {} /\ timeout_auto' = timeout_auto + call'.dt]_vars

C9_Witness ==
    /\ call.fn = "handle_auto" /\ call.dt = 50
    /\ timeout_auto = 0
    /\ DownsIn(trace) # {}

\* C10: with neither board game over, act(index, DropDown) makes one call,
\* timer_fire("fall<index>", 0): the only change is that this board's fall
\* timer is fired; boards, queue, generator and accumulators are unchanged
C10_DropDownDefers ==
    [][(/\ call'.fn = "act" /\ call'.d = "DropDown"
        /\ steps' # steps
        /\ ~AnyOver)
       => LET name == IF call'.index = 0 THEN "fall0" ELSE "fall1" IN
          /\ Len(trace') = 2
          /\ trace'[2].op = "timer_fire"
          /\ trace'[2].d = name
          /\ trace'[2].a0 = 0
          /\ timers' = timers \cup {name}
          /\ cells' = cells
          /\ block_queue' = block_queue
          /\ trand' = trand
          /\ work2idx' = work2idx
          /\ timeout_auto' = timeout_auto
          /\ timeout_ai' = timeout_ai]_vars

C10_Witness ==
    /\ call.fn = "act" /\ call.index = 1 /\ call.d = "DropDown"
    /\ ~call.over
    /\ timers = {"fall1"}

\* the calls of the last handler call include a reset of the boards
ResetIn(t) == \E k \in 1..Len(t) : t[k].op = "cell.reset"

\* C11: game over is terminal per board: once a board's game_over flag is
\* set, a handler call that makes no Restart leaves that board as it was
\* (grid, current, shadow and held piece, payload and flag), also when the
\* opponent still runs and handle_timer has an attack of it to apply
C11_GameOverTerminal ==
    /\ [](\A k \in TraceIdx :
             trace[k].op = "attacked" => trace[k].d # "over")
    /\ [][\A i \in 0..1 :
             (phase = "run" /\ cells[i].game_over /\ ~ResetIn(trace'))
                 => cells'[i] = cells[i]]_vars

\* the cells of the board's current piece
CurCells(b) == PieceAt(b.cur, b.cur_z, b.cur_x, b.cur_y)

\* C12: boundary invariant: in every reachable state every occupied grid
\* cell of both boards lies within [0,W) x [0,H), and the current piece of
\* each board has every cell in a column of [0,W) and none below row H-1,
\* whatever commands and garbage insertions led there
C12_Boundary ==
    \A i \in 0..1 :
        /\ \A p \in cells[i].grid : p[1] \in 0..(W - 1) /\ p[2] \in 0..(H - 1)
        /\ cells[i].cur # NoBlock =>
               \A p \in CurCells(cells[i]) : p[1] \in 0..(W - 1) /\ p[2] < H

\* a Left or Right was rejected with the piece against the wall it was
\* pushed at
C12_Witness ==
    \E k \in TraceIdx :
        /\ trace[k].op = "move_block"
        /\ trace[k].ret = "Blocked"
        /\ \/ trace[k].d = "Left"
              /\ \E p \in CurCells(cells[trace[k].idx]) : p[1] = 0
           \/ trace[k].d = "Right"
              /\ \E p \in CurCells(cells[trace[k].idx]) : p[1] = W - 1

\* C13: a non-zero payload produced by a lock on board i, in handle_timer
\* or through act's Down, is applied to board 1-i before any further
\* command or event: a payload left by one call is applied by the next
\* one, which is a handle_timer call, and is never left pending or dropped
C13_PayloadSameTick ==
    [][\A i \in 0..1 :
          cells[i].attack[0] # 0 =>
              /\ call'.fn = "handle_timer"
              /\ cells'[i].attack[0] = 0
              /\ \E k \in 1..Len(trace') :
                     /\ trace'[k].op = "attacked"
                     /\ trace'[k].idx = 1 - i
                     /\ trace'[k].a0 = cells[i].attack[0]]_vars

\* the positions in the trace of the calls op makes on board i
Entries(op, i) == {k \in TraceIdx : trace[k].op = op /\ trace[k].idx = i}

\* C14: within one handle_timer call board 0 is processed before board 1;
\* an attack follows the timer_process of its source board at once and is
\* followed at once by the shadow recomputation of the attacked board; a
\* payload of board 0 is applied to board 1, and cleared on board 0, before
\* board 1's timer_process runs; and if that attack leaves board 1 game
\* over, board 1's timer_process does not run in the call
C14_TimerOrder ==
    call.fn = "handle_timer" =>
        /\ \A i \in 0..1 : Cardinality(Entries("timer_process", i)) <= 1
        /\ \A k \in Entries("timer_process", 0) :
           \A j \in Entries("timer_process", 1) : k < j
        /\ \A i \in 0..1 : \A k \in Entries("attacked", i) :
               /\ k > 1 /\ (k - 1) \in Entries("timer_process", 1 - i)
               /\ k < Len(trace) /\ (k + 1) \in Entries("make_shadow", i)
        /\ \A k \in Entries("attacked", 1) :
               /\ cells[0].attack[0] = 0
               /\ \A j \in Entries("timer_process", 1) : k + 1 < j
               /\ trace[k].ret = "over" <=> Entries("timer_process", 1) = {}

\* board 0's hard drop cleared a row in this call and the attack pushed
\* board 1, stacked to the top row but not game over before, over the top
C14_Witness ==
    /\ call.fn = "handle_timer"
    /\ \E k \in Entries("attacked", 1) :
           /\ trace[k - 1].ret = "fall"
           /\ trace[k].a0 > 0
           /\ trace[k].d = "" /\ trace[k].ret = "over"
           /\ Len(trace) = k + 1

\* C15: when handle_timer returns after it applied the payload of board i
\* to the other board, the whole payload pair of board i is zero: both the
\* row count attack[0] and the attack code attack[1]
C15_PayloadPairCleared ==
    call.fn = "handle_timer" =>
        \A i \in 0..1 :
            Entries("attacked", 1 - i) # {} =>
                cells[i].attack[0] = 0 /\ cells[i].attack[1] = 0

\* the last thing the last handler call did was the reset of a Restart
RestartedLast ==
    /\ call.fn \in {"act", "handle_input"}
    /\ Len(trace) >= 4
    /\ trace[Len(trace)].op = "event_emit"
    /\ trace[Len(trace) - 3].op = "act"
    /\ trace[Len(trace) - 3].d = "Restart"

\* C16: Restart discards the timer state together with the piece state:
\* after act(_, Restart) the accumulators timeout_auto and timeout_ai are 0
\* again, the AI holds no work from before the restart and no fall timer
\* fired before the restart is left to act on the fresh boards
C16_RestartDiscardsTimers ==
    RestartedLast =>
        /\ timeout_auto = 0
        /\ timeout_ai = 0
        /\ work2idx < 0
        /\ timers = {}

\* the key bindings: space, o, i, j, k, l, s, r
KeyTable ==
    (" " :> "DropDown") @@ ("o" :> "TurnCcw") @@ ("i" :> "TurnCw")
        @@ ("j" :> "Left") @@ ("k" :> "Down") @@ ("l" :> "Right")
        @@ ("s" :> "Save") @@ ("r" :> "Restart")

Bound(e) == e.kind = "Key" /\ e.code \in DOMAIN KeyTable
IsAct(e) == e.op = "act"

\* C17: handle_input drains the input queue once per call: the act calls
\* it makes are, in queue order, one per queued key event bound to a move,
\* each for board 0 with the move the key is bound to; nothing is done on a
\* board outside these act calls; a call whose events are all unbound keys
\* or non-key events changes nothing of the model; and the input queue is
\* empty when the call returns
C17_InputDrained ==
    /\ [](input_events = <<>>)
    /\ [](call.fn = "handle_input" =>
             LET keys == SelectSeq(call.es, Bound)
                 acts == SelectSeq(trace, IsAct)
             IN  /\ Len(acts) = Len(keys)
                 /\ \A k \in 1..Len(keys) :
                        acts[k].idx = 0 /\ acts[k].d = KeyTable[keys[k].code]
                 /\ trace # <<>> => IsAct(trace[1]))
    /\ [][(call'.fn = "handle_input" /\ SelectSeq(call'.es, Bound) = <<>>)
              => UNCHANGED <<cells, block_queue, trand, work2idx,
                             timeout_auto, timeout_ai, timers>>]_vars

\* a call with an unbound key or a non-key event queued before a bound key
C17_Witness ==
    /\ call.fn = "handle_input"
    /\ Len(call.es) = 2
    /\ ~Bound(call.es[1])
    /\ Bound(call.es[2])
    /\ Len(SelectSeq(trace, IsAct)) = 1
    /\ input_events = <<>>

\* the chars of the AI that stand for a command
AiTable ==
    ("S" :> "Save") @@ ("T" :> "TurnCw") @@ ("W" :> "DropDown")
        @@ ("L" :> "Left") @@ ("R" :> "Right")

\* C18: a handle_auto call dispatches at most one AI command: at most one
\* act for board 1, which follows a get_ai_act at once and carries the
\* command its char stands for, one of Save, TurnCw, DropDown, Left, Right;
\* the only act for board 0 is the Down of the auto-fall; and when the AI
\* returns any other char no act for board 1 is made
C18_AiDispatch ==
    call.fn = "handle_auto" =>
        /\ Cardinality(Entries("act", 1)) <= 1
        /\ \A k \in Entries("act", 1) :
               /\ trace[k].d \in {"Save", "TurnCw", "DropDown", "Left", "Right"}
               /\ k > 1
               /\ trace[k - 1].op = "get_ai_act"
               /\ trace[k - 1].c \in DOMAIN AiTable
               /\ trace[k].d = AiTable[trace[k - 1].c]
        /\ Cardinality(Entries("act", 0)) <= 1
        /\ \A k \in Entries("act", 0) : trace[k].d = "Down"
        /\ (\E k \in Entries("get_ai_act", 1) : trace[k].c \notin DOMAIN AiTable)
               => Entries("act", 1) = {}

\* one call made the auto-fall Down on board 0 and dispatched the AI's
\* Save to board 1
C18_Witness ==
    /\ call.fn = "handle_auto"
    /\ Entries("act", 0) # {}
    /\ \E k \in Entries("act", 1) : trace[k].d = "Save"

\* C19: in every state reached after init or a reset the queue has
\* BLKQUEUE slots and every slot holds a piece-kind index in 0..6
C19_QueueKinds ==
    phase = "run" =>
        /\ DOMAIN block_queue = 1..BLKQUEUE
        /\ \A k \in 1..BLKQUEUE : block_queue[k] \in 0..6

\* a Restart refilled the queue, with the highest kind in one of the slots
C19_Witness ==
    /\ phase = "run"
    /\ RestartedLast
    /\ \E k \in 1..BLKQUEUE : block_queue[k] = 6

\* the string is one char of U+2200..U+22FF
InBlock(s) == Len(s) = 1 /\ s[1] \in 8704..8959

\* C20: cellinfo is total and decides by range first: a string that is one
\* char of U+2200..U+22FF, which are the strings of 3 bytes with first byte
\* 0xE2 and second byte >> 2 = 0x22, gives the code point minus 0x2200,
\* also when CELL_SYM_MAP has the glyph (U+2219 gives 25, not 122); every
\* other string gives its CELL_SYM_MAP value, or 0 when it has none
C20_RangeFirst ==
    c_pc = "ret" =>
        LET sbts == as_bytes(c_sym)
            g == CELL_SYM_MAP_get(c_sym)
        IN  /\ c_ret \in 0..255
            /\ InBlock(c_sym) <=>
                   (Len(sbts) = 3 /\ sbts[1] = 226 /\ sbts[2] \div 4 = 34)
            /\ InBlock(c_sym) => c_ret = c_sym[1] - 8704
            /\ c_sym = <<8729>> => c_ret = 25
            /\ (~InBlock(c_sym) /\ g[1]) => c_ret = g[2]
            /\ (~InBlock(c_sym) /\ ~g[1]) => c_ret = 0

\* cellinfo answered for U+2219, which CELL_SYM_MAP maps to 122
C20_Witness ==
    /\ c_pc = "ret"
    /\ c_sym = <<8729>>
    /\ CELL_SYM_MAP_get(c_sym) = <<TRUE, 122>>
    /\ c_ret = 25
====
